---- MODULE Spec2Model ----
(***************************************************************************)
(* Model of the GitHub contributions proxy route (getContributionsRoute):  *)
(* query validation (zQueryParams), date-window resolution (resolveDates), *)
(* the single upstream GraphQL call (getContributions), the mapper         *)
(* (mapContributions, mapActivityLevel) and the serializers (toCsv,        *)
(* toIsoDate).                                                             *)
(*                                                                         *)
(* Text that the program PARSES (query-string values) is a sequence of     *)
(* one-character strings; text that the program only ASSEMBLES (messages,  *)
(* CSV, ISO dates in the body) is a TLA+ string built with \o.             *)
(* A Date object is [day, ms]: whole days since 1970-01-01 and the         *)
(* milliseconds within that day.  Local time is UTC (the worker runtime).  *)
(***************************************************************************)
EXTENDS Integers, Sequences, FiniteSets, TLC

VARIABLES pc, query, now, dates, fetch, calls, response, responses

vars == <<pc, query, now, dates, fetch, calls, response, responses>>

(***************************************************************************)
(* Optional values: <<>> is "key absent / undefined", <<v>> is "v".        *)
(***************************************************************************)
None == <<>>

Some(v) == <<v>>

Has(o) == Len(o) = 1

Val(o) == o[1]

(***************************************************************************)
(* Characters and numerals.                                                *)
(***************************************************************************)
Digits == <<"0", "1", "2", "3", "4", "5", "6", "7", "8", "9">>

IsDigit(c) == \E i \in 1..10 : Digits[i] = c

DigitVal(c) == (CHOOSE i \in 1..10 : Digits[i] = c) - 1

AllDigits(s) == \A i \in 1..Len(s) : IsDigit(s[i])

RECURSIVE DigitsVal(_)
DigitsVal(s) ==
    IF s = <<>> THEN 0 ELSE 10 * DigitsVal(SubSeq(s, 1, Len(s) - 1)) + DigitVal(s[Len(s)])

\* Number -> decimal text, as template literals and toISOString print integers.
RECURSIVE NumToStr(_)
NumToStr(n) ==
    IF n < 0 THEN "-" \o NumToStr(-n)
    ELSE IF n < 10 THEN Digits[n + 1]
    ELSE NumToStr(n \div 10) \o Digits[(n % 10) + 1]

Pad2(n) == IF n < 10 THEN "0" \o NumToStr(n) ELSE NumToStr(n)

Pad4(n) ==
    IF n < 10 THEN "000" \o NumToStr(n)
    ELSE IF n < 100 THEN "00" \o NumToStr(n)
    ELSE IF n < 1000 THEN "0" \o NumToStr(n)
    ELSE NumToStr(n)

(***************************************************************************)
(* The proleptic Gregorian calendar behind Date (UTC).                     *)
(***************************************************************************)
IsLeap(y) == (y % 4 = 0 /\ y % 100 # 0) \/ y % 400 = 0

DaysInMonth(y, m) ==
    IF m = 2 THEN (IF IsLeap(y) THEN 29 ELSE 28)
    ELSE IF m \in {4, 6, 9, 11} THEN 30 ELSE 31

\* Days since 1970-01-01 of the civil date y-m-d (m in 1..12).
DaysFromCivil(y, m, d) ==
    LET yy  == IF m <= 2 THEN y - 1 ELSE y
        era == yy \div 400
        yoe == yy - era * 400
        mp  == IF m > 2 THEN m - 3 ELSE m + 9
        doy == (153 * mp + 2) \div 5 + d - 1
        doe == yoe * 365 + yoe \div 4 - yoe \div 100 + doy
    IN  era * 146097 + doe - 719468

\* The civil date [y, m, d] of a day number.
CivilFromDays(z) ==
    LET zz  == z + 719468
        era == zz \div 146097
        doe == zz - era * 146097
        yoe == (doe - doe \div 1460 + doe \div 36524 - doe \div 146096) \div 365
        doy == doe - (365 * yoe + yoe \div 4 - yoe \div 100)
        mp  == (5 * doy + 2) \div 153
        d   == doy - (153 * mp + 2) \div 5 + 1
        m   == IF mp < 10 THEN mp + 3 ELSE mp - 9
        y   == yoe + era * 400 + (IF m <= 2 THEN 1 ELSE 0)
    IN  [y |-> y, m |-> m, d |-> d]

\* ECMAScript MakeDay(year, month, date): month is 0-based and may lie outside
\* 0..11, date may lie outside the month; both carry over.
MakeDay(year, month, date) ==
    LET ym == year + month \div 12
        mn == month % 12
    IN  DaysFromCivil(ym, mn + 1, 1) + date - 1

getDate(t) == CivilFromDays(t.day).d

getMonth(t) == CivilFromDays(t.day).m - 1

getFullYear(t) == CivilFromDays(t.day).y

\* Day of the week, 0 = Sunday; 1970-01-01 was a Thursday.
getDay(t) == (t.day + 4) % 7

setDate(t, date) ==
    [t EXCEPT !.day = MakeDay(getFullYear(t), getMonth(t), date)]

setMonth(t, month) ==
    [t EXCEPT !.day = MakeDay(getFullYear(t), month, getDate(t))]

\* date.toISOString().slice(0, 10)
toIsoDate(t) ==
    LET c == CivilFromDays(t.day)
    IN  Pad4(c.y) \o "-" \o Pad2(c.m) \o "-" \o Pad2(c.d)

(***************************************************************************)
(* zQueryParams: the schema of the query string.  A query is a record of   *)
(* optional raw texts, one per schema key.                                 *)
(***************************************************************************)
\* z.iso.date(): YYYY-MM-DD naming a day that exists.
IsIsoDate(s) ==
    /\ Len(s) = 10
    /\ s[5] = "-"
    /\ s[8] = "-"
    /\ AllDigits(SubSeq(s, 1, 4))
    /\ AllDigits(SubSeq(s, 6, 7))
    /\ AllDigits(SubSeq(s, 9, 10))
    /\ LET y == DigitsVal(SubSeq(s, 1, 4))
           m == DigitsVal(SubSeq(s, 6, 7))
           d == DigitsVal(SubSeq(s, 9, 10))
       IN  m \in 1..12 /\ d >= 1 /\ d <= DaysInMonth(y, m)

\* Number(text) of z.coerce.number, for unsigned or signed decimal numerals:
\* [nan, neg, whole, frac] with frac = "has a non-zero fractional part".
\* The empty text is 0; anything that is not a numeral is NaN.
NaN == [nan |-> TRUE, neg |-> FALSE, whole |-> 0, frac |-> FALSE]

Unsigned(s) ==
    LET dots == {i \in 1..Len(s) : s[i] = "."}
    IN  IF dots = {}
        THEN IF s # <<>> /\ AllDigits(s)
             THEN [nan |-> FALSE, neg |-> FALSE, whole |-> DigitsVal(s), frac |-> FALSE]
             ELSE NaN
        ELSE LET i  == CHOOSE k \in dots : TRUE
                 ip == SubSeq(s, 1, i - 1)
                 fp == SubSeq(s, i + 1, Len(s))
             IN  IF Cardinality(dots) = 1 /\ AllDigits(ip) /\ AllDigits(fp)
                    /\ Len(ip) + Len(fp) > 0
                 THEN [nan |-> FALSE, neg |-> FALSE, whole |-> DigitsVal(ip),
                       frac |-> DigitsVal(fp) # 0]
                 ELSE NaN

coerceNumber(s) ==
    IF s = <<>> THEN [nan |-> FALSE, neg |-> FALSE, whole |-> 0, frac |-> FALSE]
    ELSE IF s[1] = "-"
         THEN LET u == Unsigned(Tail(s)) IN [u EXCEPT !.neg = ~ u.nan]
    ELSE IF s[1] = "+" THEN Unsigned(Tail(s))
    ELSE Unsigned(s)

NumAtLeastOne(n) == ~ n.neg /\ n.whole >= 1

\* The issues of one z.coerce.number(msgNum).int(msgInt).min(1, msgMin) field:
\* a failed type check stops the field, the two checks both run.
numberIssues(o, msgNum, msgInt, msgMin) ==
    IF ~ Has(o) THEN <<>>
    ELSE LET n == coerceNumber(Val(o))
         IN  IF n.nan THEN <<msgNum>>
             ELSE (IF n.frac THEN <<msgInt>> ELSE <<>>)
                  \o (IF NumAtLeastOne(n) THEN <<>> ELSE <<msgMin>>)

dateIssues(o, msg) ==
    IF Has(o) /\ ~ IsIsoDate(Val(o)) THEN <<msg>> ELSE <<>>

Json == <<"j", "s", "o", "n">>

Csv == <<"c", "s", "v">>

formatIssues(o) ==
    IF Has(o) /\ Val(o) \notin {Json, Csv}
    THEN <<"'format' must be 'json' or 'csv'">>
    ELSE <<>>

fromIssues(o) == dateIssues(o, "'from' must be in valid iso date format (YYYY-MM-DD)")

\* Faulty variant: the message of `to` names 'from' (as in the first version).
toIssuesNamesFrom(o) == dateIssues(o, "'from' is not a valid date (YYYY-MM-DD)")

toIssues(o) == dateIssues(o, "'to' must be in valid iso date format (YYYY-MM-DD)")

dIssues(o) ==
    numberIssues(o, "'d' (days) must be an integer", "'d' (days) must be an integer",
                 "'d' (days) must be greater than 1")

wIssues(o) ==
    numberIssues(o, "'w' (weeks) must be an integer", "'w' (weeks) must be an integer",
                 "'w' (weeks) must be greater than 1")

mIssues(o) ==
    numberIssues(o, "'m' (months) must be an integer", "'m' (months) must be an integer",
                 "'m' (months) must be greater than 1")

yIssues(o) ==
    numberIssues(o, "'y' (year) must be an integer", "'y' (year) must be an integer",
                 "'y' (year) must be greater than 1")

\* The issues of the whole object, in the order of the schema's keys.
issuesOf(q) ==
    fromIssues(q.from) \o toIssues(q.to) \o dIssues(q.d) \o wIssues(q.w)
    \o mIssues(q.m) \o yIssues(q.y) \o formatIssues(q.format)

numberData(o) == IF Has(o) THEN Some(coerceNumber(Val(o)).whole) ELSE None

\* .default(v).optional(): an absent key takes the default.
withDefault(o, v) == IF Has(o) THEN o ELSE Some(v)

\* zQueryParams.safeParse(params)
safeParse(q) ==
    LET issues == issuesOf(q)
    IN  IF issues # <<>>
        THEN [success |-> FALSE, issues |-> issues]
        ELSE [success |-> TRUE,
              data |-> [from   |-> q.from,
                        to     |-> q.to,
                        d      |-> numberData(q.d),
                        w      |-> numberData(q.w),
                        m      |-> numberData(q.m),
                        y      |-> withDefault(numberData(q.y), 1),
                        format |-> withDefault(q.format, Json)]]

(***************************************************************************)
(* resolveDates                                                            *)
(***************************************************************************)
\* new Date("YYYY-MM-DD"): midnight UTC of that day.
newDate(s) ==
    [day |-> DaysFromCivil(DigitsVal(SubSeq(s, 1, 4)), DigitsVal(SubSeq(s, 6, 7)),
                           DigitsVal(SubSeq(s, 9, 10))),
     ms  |-> 0]

\* `if (opts.x)`: defined and not 0.
Truthy(o) == Has(o) /\ Val(o) # 0

resolveTo(opts, t) == IF Has(opts.to) THEN newDate(Val(opts.to)) ELSE t

\* The start of the window before the duration is applied.
resolveFrom(opts, to) == IF Has(opts.from) THEN newDate(Val(opts.from)) ELSE to

\* Faulty variant: weeks take priority over days.
subtractDurationWeeksFirst(opts, from) ==
    IF Truthy(opts.w) THEN setDate(from, getDate(from) - Val(opts.w) * 7)
    ELSE IF Truthy(opts.d) THEN setDate(from, getDate(from) - Val(opts.d))
    ELSE IF Truthy(opts.m) THEN setMonth(from, getMonth(from) - Val(opts.m))
    ELSE IF Truthy(opts.y) THEN setMonth(from, getMonth(from) - Val(opts.y) * 12)
    ELSE from

\* Faulty variant: the duration is added.
subtractDurationForward(opts, from) ==
    IF Truthy(opts.d) THEN setDate(from, getDate(from) + Val(opts.d))
    ELSE IF Truthy(opts.w) THEN setDate(from, getDate(from) + Val(opts.w) * 7)
    ELSE IF Truthy(opts.m) THEN setMonth(from, getMonth(from) + Val(opts.m))
    ELSE IF Truthy(opts.y) THEN setMonth(from, getMonth(from) + Val(opts.y) * 12)
    ELSE from

\* "Calculate fromDate based on duration by priority"
subtractDuration(opts, from) ==
    IF Truthy(opts.d) THEN setDate(from, getDate(from) - Val(opts.d))
    ELSE IF Truthy(opts.w) THEN setDate(from, getDate(from) - Val(opts.w) * 7)
    ELSE IF Truthy(opts.m) THEN setMonth(from, getMonth(from) - Val(opts.m))
    ELSE IF Truthy(opts.y) THEN setMonth(from, getMonth(from) - Val(opts.y) * 12)
    ELSE from

\* Faulty variant: the week starts on Monday.
alignToMonday(from) ==
    LET fromDayIndex == getDay(from)
    IN  IF fromDayIndex # 1 THEN setDate(from, getDate(from) - ((fromDayIndex + 6) % 7))
        ELSE from

\* "Adjust `from` date to be the previous Sunday (or keep if already Sunday)"
alignToSunday(from) ==
    LET fromDayIndex == getDay(from)
    IN  IF fromDayIndex # 0 THEN setDate(from, getDate(from) - fromDayIndex) ELSE from

\* The variant without the week alignment.
resolveDatesUnaligned(opts, t) ==
    LET to == resolveTo(opts, t)
    IN  [to |-> to, from |-> subtractDuration(opts, resolveFrom(opts, to))]

\* The week-aligned variant; t is the instant `new Date()` reads.
resolveDates(opts, t) ==
    LET w == resolveDatesUnaligned(opts, t)
    IN  [to |-> w.to, from |-> alignToSunday(w.from)]

(***************************************************************************)
(* getContributions: the upstream call.  An outcome of the fetch is        *)
(*   [kind |-> "network_error"]          fetch() rejects                   *)
(*   [kind |-> "bad_json"]               res.json() rejects                *)
(*   [kind |-> "json", body |-> b]       res.json() resolves to b          *)
(* A JSON body is [data], data is [user], user is [contributionsCollection]*)
(* and a collection is [contributionCalendar], each an optional value:     *)
(* None stands for a missing, null or undefined property.                  *)
(***************************************************************************)
FetchFailed == "Failed to fetch contributions data from GitHub"

Returned(v) == [ok |-> TRUE, value |-> v]

Thrown(msg) == [ok |-> FALSE, message |-> msg]

\* The TypeError of the first property read that fails on a JSON body.
shapeError(json) ==
    IF ~ Has(json.data) THEN "Cannot read properties of undefined (reading 'user')"
    ELSE IF ~ Has(Val(json.data).user)
         THEN "Cannot read properties of null (reading 'contributionsCollection')"
    ELSE "Cannot read properties of undefined (reading 'contributionCalendar')"

\* Faulty variant: the calendar is read after the try block, so a failed
\* property read escapes with its own message.
getContributionsReadsAfterTry(outcome) ==
    IF outcome.kind # "json" THEN Thrown(FetchFailed)
    ELSE LET json == outcome.body
         IN  IF \/ ~ Has(json.data)
                \/ ~ Has(Val(json.data).user)
                \/ ~ Has(Val(Val(json.data).user).contributionsCollection)
             THEN Thrown(shapeError(json))
             ELSE Returned(Val(Val(Val(json.data).user).contributionsCollection)
                               .contributionCalendar)

\* Faulty variant: no catch, the failure of fetch() or res.json() escapes
\* with its own message.
getContributionsNoCatch(outcome) ==
    IF outcome.kind = "network_error" THEN Thrown("fetch failed")
    ELSE IF outcome.kind = "bad_json" THEN Thrown("Unexpected end of JSON input")
    ELSE LET json == outcome.body
         IN  IF \/ ~ Has(json.data)
                \/ ~ Has(Val(json.data).user)
                \/ ~ Has(Val(Val(json.data).user).contributionsCollection)
             THEN Thrown(shapeError(json))
             ELSE Returned(Val(Val(Val(json.data).user).contributionsCollection)
                               .contributionCalendar)

\* json.data.user.contributionsCollection.contributionCalendar, inside the try:
\* reading a property of a missing value throws, and the catch rethrows.
getContributions(outcome) ==
    IF outcome.kind # "json" THEN Thrown(FetchFailed)
    ELSE LET json == outcome.body
         IN  IF ~ Has(json.data) THEN Thrown(FetchFailed)
             ELSE IF ~ Has(Val(json.data).user) THEN Thrown(FetchFailed)
             ELSE IF ~ Has(Val(Val(json.data).user).contributionsCollection)
                  THEN Thrown(FetchFailed)
             ELSE Returned(Val(Val(Val(json.data).user).contributionsCollection)
                               .contributionCalendar)

(***************************************************************************)
(* mapContributions, mapActivityLevel                                      *)
(***************************************************************************)
LevelMap ==
    <<"NONE", "FIRST_QUARTILE", "SECOND_QUARTILE", "THIRD_QUARTILE", "FOURTH_QUARTILE">>

\* Array.prototype.indexOf: the 0-based index of the first match, -1 for none.
RECURSIVE indexOfFrom(_, _, _)
indexOfFrom(arr, x, i) ==
    IF i > Len(arr) THEN -1
    ELSE IF arr[i] = x THEN i - 1
    ELSE indexOfFrom(arr, x, i + 1)

includes(arr, x) == \E i \in 1..Len(arr) : arr[i] = x

\* Faulty variant: indexOf alone, -1 for a label that is not in the map.
mapActivityLevelIndexOnly(level) == indexOfFrom(LevelMap, level, 1)

mapActivityLevel(level) ==
    IF includes(LevelMap, level) THEN indexOfFrom(LevelMap, level, 1) ELSE 0

mapDay(act) ==
    [count |-> act.count, date |-> act.date, level |-> mapActivityLevel(act.contributionLevel)]

RECURSIVE mapDays(_)
mapDays(days) ==
    IF days = <<>> THEN <<>> ELSE <<mapDay(Head(days))>> \o mapDays(Tail(days))

RECURSIVE mapWeeks(_)
mapWeeks(weeks) ==
    IF weeks = <<>> THEN <<>> ELSE mapDays(Head(weeks).days) \o mapWeeks(Tail(weeks))

\* The messages are V8's for the two TypeErrors.
NoCalendarMessage == "Cannot read properties of undefined (reading 'weeks')"

NoWeeksMessage == "calendar.weeks is not iterable"

\* calendar is the optional value getContributions returned.
mapContributions(calendar) ==
    IF ~ Has(calendar) THEN Thrown(NoCalendarMessage)
    ELSE IF ~ Has(Val(calendar).weeks) THEN Thrown(NoWeeksMessage)
    ELSE Returned(mapWeeks(Val(Val(calendar).weeks)))

(***************************************************************************)
(* toCsv                                                                   *)
(***************************************************************************)
CsvHeader == "date,count,level"

csvRow(a) == a.date \o "," \o NumToStr(a.count) \o "," \o NumToStr(a.level)

RECURSIVE csvRows(_)
csvRows(activities) ==
    IF activities = <<>> THEN <<>>
    ELSE <<csvRow(Head(activities))>> \o csvRows(Tail(activities))

\* Array.prototype.join(sep)
RECURSIVE join(_, _)
join(lines, sep) ==
    IF lines = <<>> THEN ""
    ELSE IF Len(lines) = 1 THEN lines[1]
    ELSE lines[1] \o sep \o join(Tail(lines), sep)

\* Faulty variant: every line, the last too, ends with a newline.
toCsvTrailingNewline(activities) ==
    join(<<CsvHeader>> \o csvRows(activities), "\n") \o "\n"

toCsv(activities) == join(<<CsvHeader>> \o csvRows(activities), "\n")

(***************************************************************************)
(* getContributionsRoute                                                   *)
(***************************************************************************)
InvalidOptions(message) ==
    [status |-> 400, type |-> "json",
     body |-> [error |-> "Invalid options", message |-> message]]

ServerError(message) ==
    [status |-> 500, type |-> "json",
     body |-> [error |-> "Server error", message |-> message]]

\* The rest of the try block once the fetch has settled with `outcome`.
routeResult(data, window, outcome) ==
    LET calendar == getContributions(outcome)
    IN  IF ~ calendar.ok THEN ServerError(calendar.message)
        ELSE LET activities == mapContributions(calendar.value)
             IN  IF ~ activities.ok THEN ServerError(activities.message)
                 ELSE IF Val(data.format) = Csv
                      THEN [status |-> 200, type |-> "csv",
                            body |-> toCsv(activities.value)]
                      ELSE [status |-> 200, type |-> "json",
                            body |-> [to         |-> toIsoDate(window.to),
                                      from       |-> toIsoDate(window.from),
                                      total      |-> Val(calendar.value).total,
                                      activities |-> activities.value]]

NoFetch == [state |-> "none", outcome |-> None]

Epoch == [day |-> 0, ms |-> 0]

EmptyQuery ==
    [from |-> None, to |-> None, d |-> None, w |-> None, m |-> None, y |-> None,
     format |-> None]

Init ==
    /\ pc = "idle"
    /\ query = EmptyQuery
    /\ now = Epoch
    /\ dates = None
    /\ fetch = NoFetch
    /\ calls = 0
    /\ response = None
    /\ responses = 0

\* A request whose query fails validation: answered at once, nothing fetched.
RouteInvalid(Q) ==
    /\ pc = "idle"
    /\ \E q \in Q :
         LET parsed == safeParse(q)
         IN  /\ ~ parsed.success
             /\ query' = q
             /\ response' = Some(InvalidOptions(parsed.issues[1]))
    /\ responses' = responses + 1
    /\ pc' = "done"
    /\ UNCHANGED <<now, dates, fetch, calls>>

\* A request whose query is valid, up to the await of the fetch.
RouteFetch(Q, T) ==
    /\ pc = "idle"
    /\ \E q \in Q, t \in T :
         LET parsed == safeParse(q)
         IN  /\ parsed.success
             /\ query' = q
             /\ now' = t
             /\ dates' = Some(resolveDates(parsed.data, t))
    /\ fetch' = [state |-> "pending", outcome |-> None]
    /\ calls' = calls + 1
    /\ pc' = "awaiting"
    /\ UNCHANGED <<response, responses>>

\* Faulty variant: a failed call is issued once more before answering.
RouteRespondRetry(O) ==
    /\ pc = "awaiting"
    /\ \E o \in O :
         IF ~ getContributions(o).ok /\ calls < 2
         THEN /\ fetch' = [state |-> "pending", outcome |-> None]
              /\ calls' = calls + 1
              /\ pc' = "awaiting"
              /\ UNCHANGED <<response, responses>>
         ELSE /\ fetch' = [state |-> "settled", outcome |-> Some(o)]
              /\ response' = Some(routeResult(safeParse(query).data, Val(dates), o))
              /\ responses' = responses + 1
              /\ pc' = "done"
              /\ UNCHANGED calls
    /\ UNCHANGED <<query, now, dates>>

\* The fetch settles and the handler runs to its return.
RouteRespond(O) ==
    /\ pc = "awaiting"
    /\ \E o \in O :
         /\ fetch' = [state |-> "settled", outcome |-> Some(o)]
         /\ response' = Some(routeResult(safeParse(query).data, Val(dates), o))
    /\ responses' = responses + 1
    /\ pc' = "done"
    /\ UNCHANGED <<query, now, dates, calls>>

\* The invocation is over; the next request starts from scratch.
NextRequest ==
    /\ pc = "done"
    /\ pc' = "idle"
    /\ query' = EmptyQuery
    /\ now' = Epoch
    /\ dates' = None
    /\ fetch' = NoFetch
    /\ calls' = 0
    /\ response' = None
    /\ responses' = 0

(***************************************************************************)
(* The inputs the model draws from.                                        *)
(***************************************************************************)
T20240101 == <<"2", "0", "2", "4", "-", "0", "1", "-", "0", "1">>

T20240210 == <<"2", "0", "2", "4", "-", "0", "2", "-", "1", "0">>

T20240131 == <<"2", "0", "2", "4", "-", "0", "1", "-", "3", "1">>

T20240331 == <<"2", "0", "2", "4", "-", "0", "3", "-", "3", "1">>

T20240229 == <<"2", "0", "2", "4", "-", "0", "2", "-", "2", "9">>

\* Not dates: 2023 has no 29 February, no month has a 30 February, "foo".
T20230229 == <<"2", "0", "2", "3", "-", "0", "2", "-", "2", "9">>

T20240230 == <<"2", "0", "2", "4", "-", "0", "2", "-", "3", "0">>

Foo == <<"f", "o", "o">>

Xml == <<"x", "m", "l">>

Opt(S) == {None} \cup {Some(v) : v \in S}

FromTexts == {T20240101, T20240210, T20230229, Foo}

ToTexts == {T20240131, T20240331, T20240229, T20240230}

DTexts == {<<"1">>, <<"4", "0">>, <<"0">>, <<"a", "b", "c">>}

WTexts == {<<"2">>, <<"1", ".", "5">>}

MTexts == {<<"1">>, <<"1", "3">>, <<"-", "1">>}

YTexts == {<<"1">>, <<"2">>, <<>>}

FormatTexts == {Json, Csv, Xml}

Queries ==
    [from : Opt(FromTexts), to : Opt(ToTexts), d : Opt(DTexts), w : Opt(WTexts),
     m : Opt(MTexts), y : Opt(YTexts), format : Opt(FormatTexts)]

\* Wednesday 2024-05-15 12:00:00.000 and Sunday 2023-12-31 23:59:59.999 (UTC).
WednesdayNoon == [day |-> 19858, ms |-> 43200000]

SundayLate == [day |-> 19722, ms |-> 86399999]

Nows == {WednesdayNoon, SundayLate}

\* What the upstream may send for a day: the five labels and three that are not.
Palette ==
    << [count |-> 3,   date |-> "2024-01-01", contributionLevel |-> "SECOND_QUARTILE"],
       [count |-> 0,   date |-> "2024-01-02", contributionLevel |-> "NONE"],
       [count |-> 1,   date |-> "2024-01-03", contributionLevel |-> "FIRST_QUARTILE"],
       [count |-> 12,  date |-> "2024-01-04", contributionLevel |-> "FOURTH_QUARTILE"],
       [count |-> 7,   date |-> "2024-01-05", contributionLevel |-> "THIRD_QUARTILE"],
       [count |-> 2,   date |-> "2024-01-06", contributionLevel |-> "UNKNOWN"],
       [count |-> 5,   date |-> "2024-01-07", contributionLevel |-> ""],
       [count |-> 104, date |-> "2024-01-08", contributionLevel |-> "first_quartile"] >>

MaxWeeks == 2

MaxDays == 2

\* The shapes of a calendar: the number of days of each of its weeks.
Shapes == UNION {[1..n -> 0..MaxDays] : n \in 0..MaxWeeks}

PaletteDay(k) == Palette[(k % Len(Palette)) + 1]

\* The weeks of shape `shape`, their days taken in turn from the palette
\* starting at its entry `k`.
RECURSIVE WeeksOf(_, _)
WeeksOf(shape, k) ==
    IF shape = <<>> THEN <<>>
    ELSE <<[days |-> [i \in 1..Head(shape) |-> PaletteDay(k + i - 1)]]>>
         \o WeeksOf(Tail(shape), k + Head(shape))

RECURSIVE SumOf(_)
SumOf(counts) == IF counts = <<>> THEN 0 ELSE Head(counts) + SumOf(Tail(counts))

CalendarBody(calendar) ==
    [data |-> Some([user |-> Some([contributionsCollection |->
        Some([contributionCalendar |-> calendar])])])]

JsonOutcome(body) == [kind |-> "json", body |-> body]

CalendarOutcome(shape, k) ==
    LET weeks == WeeksOf(shape, k)
    IN  JsonOutcome(CalendarBody(Some(
            [total |-> Some(SumOf([i \in 1..Len(mapWeeks(weeks)) |-> mapWeeks(weeks)[i].count])),
             weeks |-> Some(weeks)])))

CalendarOutcomes == {CalendarOutcome(sh, k) : sh \in Shapes, k \in 0..(Len(Palette) - 1)}

\* Bodies that parse as JSON and lack a part of the expected shape.
NoData == JsonOutcome([data |-> None])

NoUser == JsonOutcome([data |-> Some([user |-> None])])

NoCollection == JsonOutcome([data |-> Some([user |-> Some([contributionsCollection |-> None])])])

NoCalendar == JsonOutcome(CalendarBody(None))

NoWeeks == JsonOutcome(CalendarBody(Some([total |-> Some(0), weeks |-> None])))

NoTotal == JsonOutcome(CalendarBody(Some([total |-> None, weeks |-> Some(WeeksOf(<<1>>, 0))])))

Misshapen == {NoData, NoUser, NoCollection, NoCalendar, NoWeeks, NoTotal}

FetchFailures == {[kind |-> "network_error"], [kind |-> "bad_json"]}

Outcomes ==
    FetchFailures \cup Misshapen \cup {CalendarOutcome(<<1>>, 0), CalendarOutcome(<<2, 1>>, 4)}

(***************************************************************************)
(* Spec: every query against a few upstream outcomes.                      *)
(* SpecMap: a few queries against every calendar within the bounds.        *)
(***************************************************************************)
Next ==
    \/ RouteInvalid(Queries)
    \/ RouteFetch(Queries, Nows)
    \/ RouteRespond(Outcomes)
    \/ NextRequest

Spec == Init /\ [][Next]_vars

MapQueries == {[EmptyQuery EXCEPT !.format = f] : f \in Opt(FormatTexts)}

NextMap ==
    \/ RouteInvalid(MapQueries)
    \/ RouteFetch(MapQueries, {WednesdayNoon})
    \/ RouteRespond(CalendarOutcomes)
    \/ NextRequest

SpecMap == Init /\ [][NextMap]_vars

(***************************************************************************)
(* What the properties below are stated against: the meaning of the query  *)
(* texts the model draws, written down independently of the parser.        *)
(***************************************************************************)
ValidDateTexts == {T20240101, T20240210, T20240131, T20240331, T20240229}

ValidNumberTexts == {<<"1">>, <<"2">>, <<"1", "3">>, <<"4", "0">>}

NumberMeant(o) ==
    CASE Val(o) = <<"1">> -> 1
      [] Val(o) = <<"2">> -> 2
      [] Val(o) = <<"1", "3">> -> 13
      [] Val(o) = <<"4", "0">> -> 40

DateMeant(o) ==
    CASE Val(o) = T20240101 -> [day |-> 19723, ms |-> 0]
      [] Val(o) = T20240210 -> [day |-> 19763, ms |-> 0]
      [] Val(o) = T20240131 -> [day |-> 19753, ms |-> 0]
      [] Val(o) = T20240331 -> [day |-> 19813, ms |-> 0]
      [] Val(o) = T20240229 -> [day |-> 19782, ms |-> 0]

FieldOrder == <<"from", "to", "d", "w", "m", "y", "format">>

FieldOK(q, k) ==
    \/ ~ Has(q[k])
    \/ /\ k \in {"from", "to"}
       /\ Val(q[k]) \in ValidDateTexts
    \/ /\ k \in {"d", "w", "m", "y"}
       /\ Val(q[k]) \in ValidNumberTexts
    \/ /\ k = "format"
       /\ Val(q[k]) \in {Json, Csv}

QueryOK(q) == \A i \in 1..Len(FieldOrder) : FieldOK(q, FieldOrder[i])

FirstOffending(q) ==
    FieldOrder[CHOOSE i \in 1..Len(FieldOrder) :
                  /\ ~ FieldOK(q, FieldOrder[i])
                  /\ \A j \in 1..(i - 1) : FieldOK(q, FieldOrder[j])]

MessagesNaming(k) ==
    CASE k = "from"   -> {"'from' must be in valid iso date format (YYYY-MM-DD)"}
      [] k = "to"     -> {"'to' must be in valid iso date format (YYYY-MM-DD)"}
      [] k = "d"      -> {"'d' (days) must be an integer", "'d' (days) must be greater than 1"}
      [] k = "w"      -> {"'w' (weeks) must be an integer", "'w' (weeks) must be greater than 1"}
      [] k = "m"      -> {"'m' (months) must be an integer",
                          "'m' (months) must be greater than 1"}
      [] k = "y"      -> {"'y' (year) must be an integer", "'y' (year) must be greater than 1"}
      [] k = "format" -> {"'format' must be 'json' or 'csv'"}

DateLE(a, b) == a.day < b.day \/ (a.day = b.day /\ a.ms <= b.ms)

Resolved == Has(dates)

Done == pc = "done"

Status == Val(response).status

Outcome == Val(fetch.outcome)

\* The end of the window: the supplied `to`, else the current instant.
ToMeant == IF Has(query.to) THEN DateMeant(query.to) ELSE now

\* t moved back n calendar months, a day past the month's end carrying over
\* into the next month.
MonthsBack(t, n) ==
    LET c   == CivilFromDays(t.day)
        idx == c.y * 12 + (c.m - 1) - n
        ty  == idx \div 12
        tm  == (idx % 12) + 1
        dim == DaysInMonth(ty, tm)
        ny  == IF tm = 12 THEN ty + 1 ELSE ty
        nm  == IF tm = 12 THEN 1 ELSE tm + 1
    IN  [day |-> IF c.d <= dim THEN DaysFromCivil(ty, tm, c.d)
                 ELSE DaysFromCivil(ny, nm, c.d - dim),
         ms  |-> t.ms]

DaysBack(t, n) == [day |-> t.day - n, ms |-> t.ms]

\* The one duration the priority days > weeks > months > years selects.
DurationBack(q, t) ==
    IF Has(q.d) THEN DaysBack(t, NumberMeant(q.d))
    ELSE IF Has(q.w) THEN DaysBack(t, 7 * NumberMeant(q.w))
    ELSE IF Has(q.m) THEN MonthsBack(t, NumberMeant(q.m))
    ELSE MonthsBack(t, 12 * (IF Has(q.y) THEN NumberMeant(q.y) ELSE 1))

\* 2024-01-07 (day 19729) was a Sunday.
IsSunday(t) == (t.day - 19729) % 7 = 0

\* The start of the window before the week alignment.
Unaligned == resolveDatesUnaligned(safeParse(query).data, now)

(***************************************************************************)
(* C1.  With both `from` and `to` supplied the durations are ignored: the  *)
(* resolved window is exactly [from, to].  The code contradicts this.      *)
(***************************************************************************)
C1_ExplicitWindowIsExact ==
    (Resolved /\ Has(query.from) /\ Has(query.to)) =>
        /\ Val(dates).from = DateMeant(query.from)
        /\ Val(dates).to = DateMeant(query.to)

(***************************************************************************)
(* C2.  With no `from` supplied, the start of the window before alignment  *)
(* is `to` minus exactly one duration: d days if d is given, else 7*w days *)
(* if w is given, else m months if m is given, else 12*y months with y = 1 *)
(* when no y is given; lower-priority units change nothing.                *)
(***************************************************************************)
C2_HighestPriorityUnit ==
    (Resolved /\ ~ Has(query.from)) =>
        /\ Unaligned.from = DurationBack(query, ToMeant)
        /\ Val(dates).from = alignToSunday(DurationBack(query, ToMeant))

C2_Witness ==
    /\ Resolved
    /\ ~ Has(query.from)
    /\ Has(query.d) /\ Has(query.w) /\ Has(query.m) /\ Has(query.y)
    /\ Unaligned.from.day = ToMeant.day - NumberMeant(query.d)

(***************************************************************************)
(* C3.  A query with an invalid field is answered 400 {error: "Invalid     *)
(* options", message} where message belongs to the first offending field   *)
(* in the order from, to, d, w, m, y, format and names it; a query whose   *)
(* fields are all valid is never answered 400.                             *)
(***************************************************************************)
C3_FirstOffendingField ==
    /\ (pc # "idle" /\ ~ QueryOK(query)) =>
           /\ Done
           /\ Status = 400
           /\ Val(response).body.error = "Invalid options"
           /\ Val(response).body.message \in MessagesNaming(FirstOffending(query))
    /\ (Has(response) /\ QueryOK(query)) => Status # 400

C3_Witness ==
    /\ Done
    /\ Status = 400
    /\ query.from = None
    /\ query.to = Some(T20240230)
    /\ query.d = Some(<<"0">>)
    /\ query.format = Some(Xml)
    /\ Val(response).body.message = "'to' must be in valid iso date format (YYYY-MM-DD)"

(***************************************************************************)
(* C4.  When the fetch fails or the body is not JSON, the request ends 500 *)
(* {error: "Server error", message} with one fixed, non-empty message.     *)
(***************************************************************************)
C4_FetchFailureIsFixed500 ==
    (Done /\ Status # 400 /\ Outcome.kind \in {"network_error", "bad_json"}) =>
        /\ Status = 500
        /\ Val(response).body
             = [error   |-> "Server error",
                message |-> "Failed to fetch contributions data from GitHub"]

C4_Witness ==
    /\ Done
    /\ fetch.outcome = Some([kind |-> "bad_json"])
    /\ Status = 500
    /\ Has(query.d)

(***************************************************************************)
(* What the upstream sent, flattened: the days of the weeks in sequence.   *)
(***************************************************************************)
RECURSIVE Flat(_)
Flat(weeks) == IF weeks = <<>> THEN <<>> ELSE Head(weeks).days \o Flat(Tail(weeks))

UpstreamCalendar ==
    Val(Val(Val(Val(Outcome.body.data).user).contributionsCollection).contributionCalendar)

UpstreamDays == Flat(Val(UpstreamCalendar.weeks))

LevelMeant(label) ==
    CASE label = "NONE" -> 0
      [] label = "FIRST_QUARTILE" -> 1
      [] label = "SECOND_QUARTILE" -> 2
      [] label = "THIRD_QUARTILE" -> 3
      [] label = "FOURTH_QUARTILE" -> 4
      [] OTHER -> 0

LineOf(day) ==
    day.date \o "," \o NumToStr(day.count) \o "," \o NumToStr(LevelMeant(day.contributionLevel))

\* The first n lines of the body, each but the last ended by a newline.
RECURSIVE LinesUpTo(_, _)
LinesUpTo(days, n) ==
    IF n = 0 THEN "date,count,level"
    ELSE LinesUpTo(days, n - 1) \o "\n" \o LineOf(days[n])

Answered200 == Done /\ Status = 200

(***************************************************************************)
(* C5.  A successful csv response is the header `date,count,level` and one *)
(* `date,count,level` row per upstream day, in upstream order, joined by   *)
(* single newlines with no trailing newline; for the single day            *)
(* 2024-01-01 / 3 / level 2 it is "date,count,level\n2024-01-01,3,2".      *)
(***************************************************************************)
C5_CsvBody ==
    (Answered200 /\ query.format = Some(Csv)) =>
        /\ Val(response).type = "csv"
        /\ Val(response).body = LinesUpTo(UpstreamDays, Len(UpstreamDays))
        /\ (Outcome = CalendarOutcome(<<1>>, 0)) =>
               Val(response).body = "date,count,level\n2024-01-01,3,2"

C5_Witness ==
    /\ Answered200
    /\ query.format = Some(Csv)
    /\ Outcome = CalendarOutcome(<<2, 1>>, 0)
    /\ Val(response).body
         = "date,count,level\n2024-01-01,3,2\n2024-01-02,0,0\n2024-01-03,1,1"

(***************************************************************************)
(* C6.  mapActivityLevel never throws and maps NONE, FIRST_QUARTILE,       *)
(* SECOND_QUARTILE, THIRD_QUARTILE, FOURTH_QUARTILE to 0, 1, 2, 3, 4 and   *)
(* every other string to 0, so every activity's level is in 0..4.          *)
(***************************************************************************)
C6_LevelInRange ==
    /\ (Done /\ Status # 400 /\ Outcome \in CalendarOutcomes) => Status = 200
    /\ (Answered200 /\ Val(response).type = "json") =>
           LET acts == Val(response).body.activities
           IN  /\ Len(acts) = Len(UpstreamDays)
               /\ \A i \in 1..Len(acts) :
                      /\ acts[i].level \in 0..4
                      /\ acts[i].level = LevelMeant(UpstreamDays[i].contributionLevel)

C6_Witness ==
    /\ Answered200
    /\ Val(response).type = "json"
    /\ Outcome = CalendarOutcome(<<2, 2>>, 4)
    /\ Val(response).body.activities
         = << [count |-> 7,   date |-> "2024-01-05", level |-> 3],
              [count |-> 2,   date |-> "2024-01-06", level |-> 0],
              [count |-> 5,   date |-> "2024-01-07", level |-> 0],
              [count |-> 104, date |-> "2024-01-08", level |-> 0] >>

(***************************************************************************)
(* C7.  As claimed: every resolved window has from <= to.                  *)
(***************************************************************************)
C7_FromNotAfterTo == Resolved => DateLE(Val(dates).from, Val(dates).to)

\* C7 as amended: when no `from` is supplied, the resolved window has
\* from <= to (an explicit `from` is not checked against `to`).
C7_FromNotAfterToWhenComputed ==
    (Resolved /\ ~ Has(query.from)) =>
        /\ DateLE(Val(dates).from, Val(dates).to)
        /\ Val(dates).to = ToMeant

C7_Witness ==
    /\ Resolved
    /\ ~ Has(query.from)
    /\ ~ Has(query.to)
    /\ now = SundayLate
    /\ Has(query.m)
    /\ Val(dates).from.day < Val(dates).to.day

(***************************************************************************)
(* C8.  The returned `from` is on a Sunday: the start computed before the  *)
(* alignment if that is a Sunday, else the Sunday 1..6 days before it;     *)
(* `to` is not changed by the alignment.                                   *)
(***************************************************************************)
C8_FromOnWeekStart ==
    Resolved =>
        /\ IsSunday(Val(dates).from)
        /\ Unaligned.from.day - Val(dates).from.day \in 0..6
        /\ Val(dates).from.ms = Unaligned.from.ms
        /\ IsSunday(Unaligned.from) => Val(dates).from = Unaligned.from
        /\ Val(dates).to = Unaligned.to
        /\ Val(dates).to = (IF Has(query.to) THEN DateMeant(query.to) ELSE now)

\* to = 2024-01-31 and w = 2: the start 2024-01-17 is a Wednesday and moves
\* back three days to 2024-01-14.
C8_Witness ==
    /\ Resolved
    /\ query.to = Some(T20240131)
    /\ ~ Has(query.from)
    /\ ~ Has(query.d)
    /\ query.w = Some(<<"2">>)
    /\ Unaligned.from.day = 19739
    /\ Val(dates).from.day = 19736

(***************************************************************************)
(* C9.  One invocation issues exactly one upstream call when the query is  *)
(* valid and none when it is not, never calls again after a failure, and   *)
(* gives exactly one response (200, 400 or 500), after the call's outcome; *)
(* a failure carries no partial result.                                    *)
(***************************************************************************)
C9_OneCallOneResponse ==
    /\ calls <= 1
    /\ responses <= 1
    /\ (pc = "awaiting") =>
           /\ calls = 1
           /\ responses = 0
           /\ response = None
           /\ fetch.state = "pending"
    /\ Done =>
           /\ responses = 1
           /\ Has(response)
           /\ Status \in {200, 400, 500}
           /\ (Status = 400) <=> ~ QueryOK(query)
           /\ (Status = 400) => (calls = 0 /\ fetch.state = "none")
           /\ (Status # 400) => (calls = 1 /\ fetch.state = "settled")
           /\ (Status # 200) => DOMAIN Val(response).body = {"error", "message"}

C9_Witness ==
    /\ Done
    /\ Status = 500
    /\ calls = 1
    /\ responses = 1
    /\ fetch.outcome = Some([kind |-> "network_error"])

(***************************************************************************)
(* C10.  A body that parses as JSON but lacks                              *)
(* data.user.contributionsCollection.contributionCalendar ends the request *)
(* 500 {error: "Server error", message}.                                   *)
(***************************************************************************)
\* V8's message for the property read that fails on each body.
FieldAccessError(o) ==
    CASE o = NoData -> "Cannot read properties of undefined (reading 'user')"
      [] o = NoUser -> "Cannot read properties of null (reading 'contributionsCollection')"
      [] o = NoCollection ->
             "Cannot read properties of undefined (reading 'contributionCalendar')"
      [] o = NoCalendar -> "Cannot read properties of undefined (reading 'weeks')"
      [] o = NoWeeks -> "calendar.weeks is not iterable"

LacksCalendar == {NoData, NoUser, NoCollection, NoCalendar, NoWeeks}

\* C10 as claimed: message is the message of the exception the failed field
\* access raised.
C10_MessageIsFieldAccessError ==
    (Done /\ Status # 400 /\ Outcome \in LacksCalendar) =>
        /\ Status = 500
        /\ Val(response).body
             = [error |-> "Server error", message |-> FieldAccessError(Outcome)]

\* C10 as amended: when data, user or contributionsCollection is missing the
\* access fails inside getContributions' try and message is the fixed
\* fetch-failure text; only when the calendar itself or its weeks is missing
\* is message that of the failed access.
C10_ShapeFailureIs500 ==
    (Done /\ Status # 400 /\ Outcome \in LacksCalendar) =>
        /\ Status = 500
        /\ Val(response).body.error = "Server error"
        /\ DOMAIN Val(response).body = {"error", "message"}
        /\ Val(response).body.message
             = (IF Outcome \in {NoData, NoUser, NoCollection}
                THEN "Failed to fetch contributions data from GitHub"
                ELSE FieldAccessError(Outcome))

C10_Witness ==
    /\ Done
    /\ fetch.outcome = Some(NoData)
    /\ Status = 500
    /\ Val(response).body.message = "Failed to fetch contributions data from GitHub"

====
